---- MODULE Spec2Model ----
(***************************************************************************)
(* Model of the face dataset generator (src/src/main.rs): the sequential   *)
(* batch driver `main`, the per-file pipeline `process_image`, the region  *)
(* filter `filter_valid_faces` and the crop-box arithmetic.                *)
(*                                                                         *)
(* Numbers.  Rust's u32 products and differences are kept at their width.  *)
(* TLC's integers stop at 2^31-1, so a value that may need all 32 bits (or *)
(* more, for an exact product) is held as a "wide" number <<hi, lo>>       *)
(* standing for hi * 2^16 + lo with 0 <= lo < 2^16.                        *)
(* A confidence score (f64) is held in hundredths: 2.0 is 200.             *)
(* An arithmetic overflow panics when the build has overflow checks (the   *)
(* debug profile) and wraps modulo 2^32 when it has not (the release       *)
(* profile): overflow_checks is chosen once per run.                       *)
(***************************************************************************)
EXTENDS Integers, Sequences, FiniteSets, TLC

VARIABLES
    pc,               \* position of the single thread in main / process_image
    exit_status,      \* "running", "ok" (Ok(())), "error" (setup Err), "panic"
    overflow_checks,  \* TRUE: overflow panics; FALSE: overflow wraps
    target_faces,     \* args.target_faces
    image_count,      \* image_paths.len()
    i,                \* 1-based position in image_paths of the current file
    stem,             \* file stem of the current file
    face_counter,     \* the AtomicUsize shared by all files of the run
    processed,        \* main's `processed`
    errors,           \* main's `errors`
    image,            \* dimensions of the decoded image of the current file
    faces,            \* detector output for the current file
    valid_faces,      \* filter_valid_faces(faces, image)
    j,                \* 1-based position in valid_faces
    extracted,        \* process_image's local `extracted`
    current,          \* the counter value loaded at the top of a region iteration
    crop,             \* the crop box last handed to crop_imm
    written,          \* the saves that succeeded, in order
    results,          \* per attempted file: what process_image returned
    accepted_total,   \* filter-accepted regions of the files decoded so far
    refiltered,       \* the filter applied to its own result
    reported          \* what the run printed at its end: "none", "no_images", "summary"

vars == <<pc, exit_status, overflow_checks, target_faces, image_count, i, stem,
          face_counter, processed, errors, image, faces, valid_faces, j,
          extracted, current, crop, written, results, accepted_total, refiltered, reported>>

-----------------------------------------------------------------------------
(* Bounds of the model.                                                    *)

MaxFiles == 2
MaxTarget == 2
MaxFaces == 2

(* Program constants.                                                      *)

MinFaceSide == 40
ConfidenceCenti == 200
PaddingDivisor == 8

-----------------------------------------------------------------------------
(* Wide numbers: <<hi, lo>> is hi * 2^16 + lo.                             *)

Limb == 256 * 256

Max(a, b) == IF a >= b THEN a ELSE b

ToWide(n) == <<n \div Limb, n % Limb>>

WideNorm(hi, lo) == <<hi + (lo \div Limb), lo % Limb>>

WideScale(x, k) == WideNorm(x[1] * k, x[2] * k)

WideAdd(x, y) == WideNorm(x[1] + y[1], x[2] + y[2])

WideShift16(x) == <<x[1] * Limb + x[2], 0>>

WideLess(x, y) == x[1] < y[1] \/ (x[1] = y[1] /\ x[2] < y[2])

WideMin(x, y) == IF WideLess(y, x) THEN y ELSE x

WideToInt(x) == x[1] * Limb + x[2]

\* The exact product of two naturals below 2^20, by the bytes of b.
WideMul(a, b) ==
    LET b0 == b % 256
        b1 == (b \div 256) % 256
        b2 == b \div Limb
        A  == ToWide(a)
    IN  WideAdd(WideScale(A, b0),
                WideAdd(WideScale(WideScale(A, b1), 256),
                        WideShift16(WideScale(A, b2))))

\* u32 * u32: what the multiplication leaves in a u32 when it wraps.
WrappingMulU32(a, b) == LET p == WideMul(a, b) IN <<p[1] % Limb, p[2]>>

MulOverflowsU32(a, b) == WideMul(a, b)[1] >= Limb

\* u32 - u32 for a, b below 2^31: a - b, or 2^32 - (b - a) when it wraps.
WrappingSubU32(a, b) ==
    IF a >= b THEN ToWide(a - b)
    ELSE LET d == ToWide(b - a - 1) IN <<(Limb - 1) - d[1], (Limb - 1) - d[2]>>

SubOverflowsU32(a, b) == a < b

-----------------------------------------------------------------------------
(* Regions and images.  A region is the detector's FaceInfo: bbox x, y     *)
(* (i32), bbox w, h (u32) and the score in hundredths.  An image is the    *)
(* pair of dimensions of the decoded DynamicImage.                         *)

Region(x, y, w, h, s) == [x |-> x, y |-> y, w |-> w, h |-> h, score |-> s]

Image(w, h) == [w |-> w, h |-> h]

NoImage == Image(0, 0)

SeqsUpTo(S, n) == UNION {[1..m -> S] : m \in 0..n}

Range(s) == {s[k] : k \in 1..Len(s)}

-----------------------------------------------------------------------------
(* filter_valid_faces (main.rs 207-234).                                   *)
(* The areas are u32 products converted to f64 (exactly) and divided; the  *)
(* quotient is compared with the literals 0.02 and 0.4.  Two different     *)
(* fractions of numbers below 2^32 differ by more than 2^-38, far more     *)
(* than the rounding of the division and of the literals, so the f64       *)
(* comparisons decide exactly fa/ia > 1/50 and fa/ia < 2/5; a zero divisor *)
(* gives inf or NaN, for which `> 0.02 && < 0.4` is false, as are the      *)
(* cross-multiplied comparisons below.  The same holds for w/h against the *)
(* exactly representable 0.5 and 2.0.                                      *)

img_area(img) == WrappingMulU32(img.w, img.h)

face_area(face) == WrappingMulU32(face.w, face.h)

\* The size test with the bounds included.
size_ok_inclusive(face, img) ==
    /\ ~WideLess(WideScale(face_area(face), 50), img_area(img))
    /\ ~WideLess(WideScale(img_area(img), 2), WideScale(face_area(face), 5))

\* face_ratio > 0.02 && face_ratio < 0.4
size_ok(face, img) ==
    /\ WideLess(img_area(img), WideScale(face_area(face), 50))
    /\ WideLess(WideScale(face_area(face), 5), WideScale(img_area(img), 2))

\* face.score() > 2.0
confidence_ok(face) == face.score > ConfidenceCenti

\* aspect_ratio > 0.5 && aspect_ratio < 2.0
ratio_ok(face) == 2 * face.w > face.h /\ face.w < 2 * face.h

\* bbox.width() >= 40 && bbox.height() >= 40
min_size_ok(face) == face.w >= MinFaceSide /\ face.h >= MinFaceSide

FaceValid(face, img) ==
    size_ok(face, img) /\ confidence_ok(face) /\ ratio_ok(face) /\ min_size_ok(face)

Reverse(s) == [k \in 1..Len(s) |-> s[Len(s) + 1 - k]]

\* A filter that hands the accepted regions back in the opposite order.
filter_valid_faces_reversed(fs, img) ==
    LET Keep(face) == FaceValid(face, img) IN Reverse(SelectSeq(fs, Keep))

filter_valid_faces(fs, img) ==
    LET Keep(face) == FaceValid(face, img) IN SelectSeq(fs, Keep)

\* With overflow checks the products of lines 209 and 215 panic instead of
\* wrapping; the iterator visits every face, so any overflowing face panics.
FilterPanics(fs, img) ==
    /\ overflow_checks
    /\ \/ MulOverflowsU32(img.w, img.h)
       \/ \E k \in 1..Len(fs) : MulOverflowsU32(fs[k].w, fs[k].h)

-----------------------------------------------------------------------------
(* The crop box of process_image (main.rs 170-179).                        *)

\* ((bbox.width() + bbox.height()) / 8) as i32
padding(face) == (face.w + face.h) \div PaddingDivisor

\* (bbox.x() - padding).max(0) as u32
crop_x(face) == Max(face.x - padding(face), 0)

\* (bbox.y() - padding).max(0) as u32
crop_y(face) == Max(face.y - padding(face), 0)

\* ((bbox.width() as i32 + 2 * padding) as u32).min(image.width() - x)
crop_width(face, img) ==
    WideToInt(WideMin(ToWide(face.w + 2 * padding(face)),
                      WrappingSubU32(img.w, crop_x(face))))

\* ((bbox.height() as i32 + 2 * padding) as u32).min(image.height() - y)
crop_height(face, img) ==
    WideToInt(WideMin(ToWide(face.h + 2 * padding(face)),
                      WrappingSubU32(img.h, crop_y(face))))

\* image.width() - x and image.height() - y are u32 subtractions.
CropUnderflows(face, img) ==
    \/ SubOverflowsU32(img.w, crop_x(face))
    \/ SubOverflowsU32(img.h, crop_y(face))

CropPanics(face, img) == overflow_checks /\ CropUnderflows(face, img)

CropBox(face, img) ==
    [x |-> crop_x(face), y |-> crop_y(face),
     width |-> crop_width(face, img), height |-> crop_height(face, img)]

NoCrop == [x |-> 0, y |-> 0, width |-> 0, height |-> 0]

-----------------------------------------------------------------------------
(* Inputs of the driver: what the file system, the codec and the detector  *)
(* may hand to it.                                                         *)

Stems == {"a", "b"}

DriverImages == {Image(200, 200)}

DriverRegions ==
    { Region(0, 0, 50, 50, 250),       \* accepted, at the top-left corner
      Region(150, 150, 60, 60, 210),   \* accepted, padded box crosses the far edges
      Region(50, 50, 60, 60, 150),     \* rejected: confidence
      Region(220, 0, 40, 40, 250) }    \* accepted, reported right of the image

-----------------------------------------------------------------------------
(* main (main.rs 39-125) and process_image (main.rs 127-198).              *)

Init ==
    /\ pc = "create_output_dir"
    /\ exit_status = "running"
    /\ overflow_checks \in BOOLEAN
    /\ target_faces \in 0..MaxTarget
    /\ image_count = 0
    /\ i = 0
    /\ stem = ""
    /\ face_counter = 0
    /\ processed = 0
    /\ errors = 0
    /\ image = NoImage
    /\ faces = <<>>
    /\ valid_faces = <<>>
    /\ j = 0
    /\ extracted = 0
    /\ current = 0
    /\ crop = NoCrop
    /\ written = <<>>
    /\ results = <<>>
    /\ accepted_total = 0
    /\ refiltered = <<>>
    /\ reported = "none"

\* The locals of process_image are dropped when it returns.
DropLocals ==
    /\ image' = NoImage
    /\ faces' = <<>>
    /\ valid_faces' = <<>>
    /\ j' = 0
    /\ extracted' = 0
    /\ current' = 0
    /\ crop' = NoCrop

KeepLocals == UNCHANGED <<image, faces, valid_faces, j, extracted, current, crop>>

\* process_image returns Ok(n): the Ok arm of main's match (103-108), next file.
ReturnOk ==
    /\ processed' = processed + 1
    /\ results' = Append(results, "Ok")
    /\ i' = i + 1
    /\ pc' = "loop"
    /\ DropLocals
    /\ UNCHANGED <<exit_status, errors>>

\* An Err arm that counts the file as processed too.
ReturnErrCountsProcessed(kind) ==
    /\ errors' = errors + 1
    /\ processed' = processed + 1
    /\ results' = Append(results, kind)
    /\ i' = i + 1
    /\ pc' = "loop"
    /\ DropLocals
    /\ UNCHANGED exit_status

\* process_image returns Err(e): the Err arm of main's match (109-112), next file.
ReturnErr(kind) ==
    /\ errors' = errors + 1
    /\ results' = Append(results, kind)
    /\ i' = i + 1
    /\ pc' = "loop"
    /\ DropLocals
    /\ UNCHANGED <<exit_status, processed>>

\* A panic unwinds through main: the process ends without a summary.
Panic ==
    /\ pc' = "exit"
    /\ exit_status' = "panic"
    /\ KeepLocals
    /\ UNCHANGED <<i, processed, errors, results>>

\* fs::create_dir_all(&args.output).context(..)?  (46-47)
CreateOutputDir ==
    /\ pc = "create_output_dir"
    /\ \E ok \in BOOLEAN :
          IF ok THEN pc' = "create_detector" /\ UNCHANGED exit_status
                ELSE pc' = "exit" /\ exit_status' = "error"
    /\ UNCHANGED <<overflow_checks, target_faces, image_count, i, stem, face_counter,
                   processed, errors, written, results, accepted_total, refiltered, reported>>
    /\ KeepLocals

\* rustface::create_detector(args.model.to_str().unwrap()).context(..)?  (50-57)
CreateDetector ==
    /\ pc = "create_detector"
    /\ \E outcome \in {"loaded", "load_error", "path_not_utf8"} :
          CASE outcome = "loaded" -> pc' = "scan" /\ UNCHANGED exit_status
            [] outcome = "load_error" -> pc' = "exit" /\ exit_status' = "error"
            [] outcome = "path_not_utf8" -> pc' = "exit" /\ exit_status' = "panic"
    /\ UNCHANGED <<overflow_checks, target_faces, image_count, i, stem, face_counter,
                   processed, errors, written, results, accepted_total, refiltered, reported>>
    /\ KeepLocals

\* What the run returns when the scan found nothing: `return Ok(())`  (85)
no_images_status_error == "error"

no_images_status == "ok"

\* WalkDir .. collect(); the empty case returns Ok(()) at once; otherwise the
\* counters are created  (62-90)
ScanImages ==
    /\ pc = "scan"
    /\ \E n \in 0..MaxFiles :
          /\ image_count' = n
          /\ IF n = 0
                THEN /\ pc' = "exit"
                     /\ exit_status' = no_images_status
                     /\ reported' = "no_images"
                     /\ i' = i
                ELSE /\ pc' = "loop"
                     /\ exit_status' = exit_status
                     /\ reported' = reported
                     /\ i' = 1
    /\ face_counter' = 0
    /\ processed' = 0
    /\ errors' = 0
    /\ UNCHANGED <<overflow_checks, target_faces, stem, written, results,
                   accepted_total, refiltered>>
    /\ KeepLocals

\* for (i, path) in image_paths.iter().enumerate(): the target check  (93-100)
LoopNext ==
    /\ pc = "loop"
    /\ IF i > image_count \/ face_counter >= target_faces
          THEN pc' = "summary" /\ stem' = stem
          ELSE pc' = "open" /\ stem' \in Stems
    /\ UNCHANGED <<exit_status, overflow_checks, target_faces, image_count, i,
                   face_counter, processed, errors, written, results,
                   accepted_total, refiltered, reported>>
    /\ KeepLocals

\* process_image: the entry check and image::open  (134-142)
OpenImage ==
    /\ pc = "open"
    /\ IF face_counter >= target_faces
          THEN ReturnOk
          ELSE \E decoded \in BOOLEAN :
                  IF decoded
                     THEN /\ image' \in DriverImages
                          /\ pc' = "detect"
                          /\ UNCHANGED <<exit_status, i, processed, errors, results,
                                         faces, valid_faces, j, extracted, current, crop>>
                     ELSE ReturnErr("ErrOpen")
    /\ UNCHANGED <<overflow_checks, target_faces, image_count, stem, face_counter,
                   written, accepted_total, refiltered, reported>>

\* detect_faces(detector, &image.to_luma8())?; if faces.is_empty() return Ok(0)
\* (145-149, 200-205)
DetectFaces ==
    /\ pc = "detect"
    /\ \E fs \in SeqsUpTo(DriverRegions, MaxFaces) :
          IF fs = <<>>
             THEN ReturnOk
             ELSE /\ faces' = fs
                  /\ pc' = "filter"
                  /\ UNCHANGED <<exit_status, i, processed, errors, results, image,
                                 valid_faces, j, extracted, current, crop>>
    /\ UNCHANGED <<overflow_checks, target_faces, image_count, stem, face_counter,
                   written, accepted_total, refiltered, reported>>

\* filter_valid_faces(&faces, &image); if valid_faces.is_empty() return Ok(0)
\* (152-162)
FilterFaces ==
    /\ pc = "filter"
    /\ IF FilterPanics(faces, image)
          THEN Panic /\ UNCHANGED accepted_total
          ELSE LET kept == filter_valid_faces(faces, image) IN
               /\ accepted_total' = accepted_total + Len(kept)
               /\ IF kept = <<>>
                     THEN ReturnOk
                     ELSE /\ valid_faces' = kept
                          /\ j' = 1
                          /\ extracted' = 0
                          /\ pc' = "region"
                          /\ UNCHANGED <<exit_status, i, processed, errors, results,
                                         image, faces, current, crop>>
    /\ UNCHANGED <<overflow_checks, target_faces, image_count, stem, face_counter,
                   written, refiltered, reported>>

\* A region loop that never looks at the counter again.
RegionLoopEndsAtListEnd == j > Len(valid_faces)

\* The region loop ends at the end of valid_faces or when the counter, loaded
\* again before every region, has reached the target  (164-168)
RegionLoopEnds == j > Len(valid_faces) \/ face_counter >= target_faces

\* for (i, face) in valid_faces.iter().enumerate(): the end of the loop, the
\* target check and the crop box  (164-179, 197)
CropRegion ==
    /\ pc = "region"
    /\ IF RegionLoopEnds
          THEN ReturnOk
          ELSE IF CropPanics(valid_faces[j], image)
                  THEN Panic
                  ELSE /\ current' = face_counter
                       /\ crop' = CropBox(valid_faces[j], image)
                       /\ pc' = "save"
                       /\ UNCHANGED <<exit_status, i, processed, errors, results,
                                      image, faces, valid_faces, j, extracted>>
    /\ UNCHANGED <<overflow_checks, target_faces, image_count, stem, face_counter,
                   written, accepted_total, refiltered, reported>>

\* A name numbered by the per-file count instead of the global counter.
face_filename_per_file(face) ==
    [stem |-> stem, index |-> extracted + 1, score |-> face.score]

\* The name of the output file: "{stem}_{current + 1:04}_{score * 100:.0}.jpg"
\* (182-187)
face_filename(face) == [stem |-> stem, index |-> current + 1, score |-> face.score]

\* A save that forgets to count.
counter_not_incremented == face_counter

\* face_counter.fetch_add(1, Ordering::Relaxed) after a save that succeeded (193)
counter_after_save == face_counter + 1

\* A counter incremented before the save is known to have succeeded.
counter_incremented_on_save_error == face_counter + 1

\* `?` returns from process_image before the fetch_add when the save fails
\* (190-191)
counter_on_save_error == face_counter

\* face_img.save(&face_path).context(..)?; fetch_add(1); extracted += 1
\* (189-194)
SaveRegion ==
    /\ pc = "save"
    /\ \E saved \in BOOLEAN :
          IF saved
             THEN /\ written' = Append(written,
                                       [file |-> i, name |-> face_filename(valid_faces[j])])
                  /\ face_counter' = counter_after_save
                  /\ extracted' = extracted + 1
                  /\ j' = j + 1
                  /\ pc' = "region"
                  /\ UNCHANGED <<exit_status, i, processed, errors, results, image,
                                 faces, valid_faces, current, crop>>
             ELSE /\ ReturnErr("ErrSave")
                  /\ face_counter' = counter_on_save_error
                  /\ UNCHANGED written
    /\ UNCHANGED <<overflow_checks, target_faces, image_count, stem,
                   accepted_total, refiltered, reported>>

\* The end-of-run summary and Ok(())  (116-124)
Summary ==
    /\ pc = "summary"
    /\ pc' = "exit"
    /\ exit_status' = "ok"
    /\ reported' = "summary"
    /\ UNCHANGED <<overflow_checks, target_faces, image_count, i, stem, face_counter,
                   processed, errors, written, results, accepted_total, refiltered>>
    /\ KeepLocals

Next ==
    \/ CreateOutputDir
    \/ CreateDetector
    \/ ScanImages
    \/ LoopNext
    \/ OpenImage
    \/ DetectFaces
    \/ FilterFaces
    \/ CropRegion
    \/ SaveRegion
    \/ Summary

Spec == Init /\ [][Next]_vars

-----------------------------------------------------------------------------
(* The filter on its own: the candidates and the image are drawn from sets *)
(* that hold the boundary of every condition and products beyond 32 bits;  *)
(* the filter is applied to them, and then once more to its own result.    *)

FilterImages ==
    { Image(50, 80),          \* 40x40 is exactly 0.4 of it
      Image(50, 81),          \* 40x40 is just below 0.4 of it
      Image(200, 400),        \* 40x40 is exactly 0.02 of it
      Image(200, 200),
      Image(65536, 65537) }   \* width * height is 2^32 + 2^16

FilterRegions ==
    { Region(0, 0, 40, 40, 250),
      Region(0, 0, 40, 40, 200),        \* confidence exactly 2.0
      Region(0, 0, 40, 40, 201),
      Region(0, 0, 40, 40, 150),
      Region(0, 0, 41, 40, 250),
      Region(0, 0, 39, 40, 250),        \* one side below the minimum
      Region(0, 0, 40, 39, 250),
      Region(0, 0, 40, 80, 250),        \* aspect ratio exactly 0.5
      Region(0, 0, 80, 40, 250),        \* aspect ratio exactly 2.0
      Region(0, 0, 41, 80, 250),
      Region(0, 0, 80, 41, 250),
      Region(0, 0, 40, 0, 250),         \* zero height
      Region(0, 0, 0, 40, 250),
      Region(0, 0, 0, 0, 250),
      Region(300, 300, 60, 60, 250),    \* outside the image
      Region(0, 0, 65536, 65536, 250) } \* w * h is 2^32

InitFilter ==
    /\ pc = "filter_call"
    /\ exit_status = "running"
    /\ overflow_checks \in BOOLEAN
    /\ image \in FilterImages
    /\ faces \in SeqsUpTo(FilterRegions, MaxFaces)
    /\ valid_faces = <<>>
    /\ refiltered = <<>>
    /\ reported = "none"
    /\ target_faces = 0
    /\ image_count = 0
    /\ i = 0
    /\ stem = ""
    /\ face_counter = 0
    /\ processed = 0
    /\ errors = 0
    /\ j = 0
    /\ extracted = 0
    /\ current = 0
    /\ crop = NoCrop
    /\ written = <<>>
    /\ results = <<>>
    /\ accepted_total = 0

\* let valid_faces = filter_valid_faces(&faces, &image)
FilterCall ==
    /\ pc = "filter_call"
    /\ IF FilterPanics(faces, image)
          THEN pc' = "exit" /\ exit_status' = "panic" /\ valid_faces' = valid_faces
          ELSE /\ pc' = "filter_again"
               /\ exit_status' = exit_status
               /\ valid_faces' = filter_valid_faces(faces, image)
    /\ UNCHANGED <<overflow_checks, target_faces, image_count, i, stem, face_counter,
                   processed, errors, image, faces, j, extracted, current, crop,
                   written, results, accepted_total, refiltered, reported>>

\* filter_valid_faces applied to the regions it returned
FilterAgain ==
    /\ pc = "filter_again"
    /\ pc' = "filter_done"
    /\ refiltered' = filter_valid_faces(valid_faces, image)
    /\ UNCHANGED <<exit_status, overflow_checks, target_faces, image_count, i, stem,
                   face_counter, processed, errors, image, faces, valid_faces, j,
                   extracted, current, crop, written, results, accepted_total,
                   reported>>

NextFilter == FilterCall \/ FilterAgain

SpecFilter == InitFilter /\ [][NextFilter]_vars

-----------------------------------------------------------------------------
(* Properties of the driver, checked under Spec.                           *)

RunEnded == pc = "exit"

\* The files attempted so far whose process_image call returned `kind`.
FilesWith(kind) == {k \in 1..Len(results) : results[k] = kind}

\* The saves that succeeded for file k.
SavesOf(k) == {n \in 1..Len(written) : written[n].file = k}

\* C1: in every reachable state the global extraction counter is at most the
\* configured target: the sequential driver never overshoots.
C1_CounterNeverExceedsTarget == face_counter <= target_faces

\* The counter has reached the target in the middle of a file: accepted regions
\* of the current file are left, and the per-region check is what stops the loop.
C1_Witness ==
    /\ pc = "region"
    /\ target_faces > 0
    /\ face_counter = target_faces
    /\ j <= Len(valid_faces)

\* C2: when the files yield at least `target` filter-accepted regions (in files
\* that decode) and every save succeeds, the run ends with the counter equal to
\* exactly `target`.
C2_TargetReachedExactly ==
    (/\ RunEnded
     /\ accepted_total >= target_faces
     /\ FilesWith("ErrSave") = {})
    => face_counter = target_faces

\* C3: a decode failure is local and non-fatal: every failure adds one to
\* `errors`, a file that failed to decode leaves the counter and the written
\* files alone, the driver is at the next file, and a run in which a file failed
\* to decode still ends successfully.
C3_DecodeFailureIsNonFatal ==
    /\ errors = Cardinality(FilesWith("ErrOpen")) + Cardinality(FilesWith("ErrSave"))
    /\ \A k \in FilesWith("ErrOpen") : SavesOf(k) = {}
    /\ pc = "loop" => i = Len(results) + 1
    /\ (RunEnded /\ FilesWith("ErrOpen") # {}) => exit_status = "ok"

\* C4: a save failure never unwinds past the per-file boundary: the crop whose
\* save failed is not counted, `errors` grows by one for that file, the driver
\* is at the next file, and a run in which a save failed still ends successfully.
C4_SaveFailureIsNonFatal ==
    /\ errors = Cardinality(FilesWith("ErrOpen")) + Cardinality(FilesWith("ErrSave"))
    /\ face_counter = Len(written)
    /\ pc = "loop" => i = Len(results) + 1
    /\ (RunEnded /\ FilesWith("ErrSave") # {}) => exit_status = "ok"

\* C5 as stated: a file whose processing ends in a per-file error contributes
\* nothing to the counter: at the end of the run the counter equals the number
\* of faces extracted from the files processed without error.
C5_ErroredFilesContributeNothing ==
    exit_status = "ok" =>
        face_counter = Cardinality(UNION {SavesOf(k) : k \in FilesWith("Ok")})

\* C5 amended: a file that fails to decode contributes nothing to the counter;
\* a file that ends in a save failure contributes the faces saved before the
\* failing save, which stay counted; at every point the counter equals the
\* number of faces saved from the files that returned Ok or a save error, plus
\* those saved so far from the file in progress.
C5_ErroredFilesKeepEarlierSaves ==
    /\ \A k \in FilesWith("ErrOpen") : SavesOf(k) = {}
    /\ face_counter =
          Cardinality(UNION {SavesOf(k) : k \in FilesWith("Ok") \cup FilesWith("ErrSave")})
          + extracted

\* A run has ended normally with a face counted from a file that ended in a
\* save failure.
C5_Witness ==
    /\ exit_status = "ok"
    /\ \E k \in FilesWith("ErrSave") : SavesOf(k) # {}

\* C6: output names are collision-free within a run: the index in a name is the
\* counter value before the increment plus one, no two successful saves share an
\* index, and no name is written twice.
C6_NamesAreCollisionFree ==
    /\ \A n \in 1..Len(written) : written[n].name.index = n
    /\ \A m, n \in 1..Len(written) : m # n => written[m].name # written[n].name
    /\ pc = "save" => face_filename(valid_faces[j]).index = face_counter + 1

\* Two files of the same stem each gave a face of the same score: only the
\* index tells the two names apart.
C6_Witness ==
    \E m, n \in 1..Len(written) :
        /\ written[m].file # written[n].file
        /\ written[m].name.stem = written[n].name.stem
        /\ written[m].name.score = written[n].name.score

\* C7: the counter is monotonic and counts the written files: it never
\* decreases, it changes only by +1 together with a successful save, and at
\* every point it equals the number of files written.
C7_CounterCountsWrittenFiles ==
    /\ [](face_counter = Len(written))
    /\ [][/\ face_counter' >= face_counter
          /\ face_counter' # face_counter =>
                /\ pc = "save"
                /\ face_counter' = face_counter + 1
                /\ Len(written') = Len(written) + 1]_vars

\* Two faces are counted and a save has failed in between or after.
C7_Witness ==
    /\ face_counter = 2
    /\ FilesWith("ErrSave") # {}

\* C10: for every accepted region, whatever its position, the crop box has its
\* top-left corner at x >= 0, y >= 0, its bottom-right corner within the image,
\* and image.width() - x, image.height() - y never underflow.
C10_CropBoxWithinImage ==
    /\ (pc = "region" /\ ~RegionLoopEnds) => ~CropUnderflows(valid_faces[j], image)
    /\ pc = "save" =>
          /\ crop.x >= 0
          /\ crop.y >= 0
          /\ crop.x + crop.width <= image.w
          /\ crop.y + crop.height <= image.h

-----------------------------------------------------------------------------
(* Properties of the filter, checked under SpecFilter.                     *)

FilterReturned == pc \in {"filter_again", "filter_done"}

Fits32(a, b) == ~MulOverflowsU32(a, b)

\* The acceptance conditions over the exact products: 0.02 < (w*h)/(W*H) < 0.4,
\* confidence > 2.0, 0.5 < w/h < 2.0, w >= 40 and h >= 40.
Accepts(face, img) ==
    /\ WideLess(WideMul(img.w, img.h), WideScale(WideMul(face.w, face.h), 50))
    /\ WideLess(WideScale(WideMul(face.w, face.h), 5), WideScale(WideMul(img.w, img.h), 2))
    /\ face.score > 200
    /\ 2 * face.w > face.h /\ face.w < 2 * face.h
    /\ face.w >= 40 /\ face.h >= 40

\* C8: when the areas fit in 32 bits the filter accepts a region if and only if
\* all four conditions hold with strict bounds, and it does not fail.
C8_FilterAcceptsExactly ==
    /\ FilterReturned =>
          \A k \in 1..Len(faces) :
              (Fits32(image.w, image.h) /\ Fits32(faces[k].w, faces[k].h))
              => ((faces[k] \in Range(valid_faces)) <=> Accepts(faces[k], image))
    /\ exit_status = "panic" =>
          \/ ~Fits32(image.w, image.h)
          \/ \E k \in 1..Len(faces) : ~Fits32(faces[k].w, faces[k].h)

\* A region at exactly 0.02 of the image is rejected next to one just above it.
C8_Witness ==
    /\ FilterReturned
    /\ image = Image(200, 400)
    /\ faces = <<Region(0, 0, 40, 40, 250), Region(0, 0, 41, 40, 250)>>
    /\ valid_faces = <<Region(0, 0, 41, 40, 250)>>

IsSubsequence(s, t) ==
    \E f \in [1..Len(s) -> 1..Len(t)] :
        /\ \A k \in 1..Len(s) : t[f[k]] = s[k]
        /\ \A k, l \in 1..Len(s) : k < l => f[k] < f[l]

\* C9: the filter is an order-preserving selection: its result is a subsequence
\* of the candidates, and applied to its own result it returns that result.
C9_FilterIsOrderPreservingSelection ==
    /\ FilterReturned => IsSubsequence(valid_faces, faces)
    /\ pc = "filter_done" => refiltered = valid_faces

\* Two different regions are accepted: their order is there to be kept.
C9_Witness ==
    /\ pc = "filter_done"
    /\ Len(valid_faces) = 2
    /\ valid_faces[1] # valid_faces[2]
    /\ refiltered = valid_faces

-----------------------------------------------------------------------------
(* The run as a whole: C11 to C14.                                         *)

\* The states in which a file is being processed.
ProcessingFile == pc \in {"open", "detect", "filter", "region", "save"}

\* C11: when setup has succeeded and the scan finds no supported image, the
\* run ends at once and successfully, with zero faces extracted, zero files
\* processed and zero errors, it reports "no images found", and no file is ever
\* processed.
C11_EmptyInputEndsOkWithNothingDone ==
    /\ [][(pc = "scan" /\ image_count' = 0) =>
              /\ pc' = "exit"
              /\ exit_status' = "ok"
              /\ reported' = "no_images"
              /\ face_counter' = 0 /\ processed' = 0 /\ errors' = 0
              /\ written' = <<>> /\ results' = <<>>]_vars
    /\ [](image_count = 0 => ~ProcessingFile /\ pc # "loop" /\ pc # "summary")

\* A run whose scan found nothing has ended.
C11_Witness ==
    /\ RunEnded
    /\ reported = "no_images"
    /\ image_count = 0
    /\ face_counter = 0 /\ processed = 0 /\ errors = 0

\* The run stopped in setup: nothing was scanned, decoded, counted or written.
EndedInSetup ==
    /\ RunEnded
    /\ image_count = 0
    /\ reported = "none"
    /\ results = <<>> /\ written = <<>>
    /\ face_counter = 0 /\ processed = 0 /\ errors = 0

\* C12: a failure to create the output directory or to load the model ends the
\* run at once with a failure, before the input tree is scanned, a file is
\* decoded, an output is written or the counter is created; and a run that
\* ends unsuccessfully has ended in setup.
C12_OnlySetupFailureEndsUnsuccessfully ==
    /\ exit_status = "error" => EndedInSetup
    /\ (RunEnded /\ exit_status # "ok") => EndedInSetup

\* C13: a run that has passed setup has, when it ends, reported the end-of-run
\* summary (files processed, files errored, faces extracted), whatever the
\* input set is.
C13_RunPastSetupEndsWithSummary ==
    (RunEnded /\ ~EndedInSetup) => reported = "summary"

\* C14: once the counter is at or above the target no further work is started:
\* no step decodes a file, hands an image to the detector or the filter, crops
\* or saves a region; a file is in the decoder's, detector's, filter's or
\* encoder's hands only while the counter is below the target; with a target
\* of 0 no file is ever decoded.
C14_NoWorkStartedOnceTargetReached ==
    /\ [](pc \in {"detect", "filter", "save"} => face_counter < target_faces)
    /\ [][face_counter >= target_faces =>
              /\ pc' \notin {"detect", "filter", "save"}
              /\ image' \in {image, NoImage}
              /\ crop' \in {crop, NoCrop}
              /\ written' = written]_vars
    /\ [](target_faces = 0 => image = NoImage /\ results = <<>> /\ ~ProcessingFile)

\* The driver has left the loop at the per-file check with files never reached.
C14_Witness ==
    /\ pc = "summary"
    /\ target_faces > 0
    /\ face_counter = target_faces
    /\ i <= image_count

-----------------------------------------------------------------------------
(* The crop box, the file counts and termination: C15 to C17.              *)

Min(a, b) == IF a <= b THEN a ELSE b

\* C15: the crop box is the region expanded by padding = (w + h) div 8 on each
\* side and clamped to the image: left = max(0, x - padding),
\* top = max(0, y - padding), right = min(image width, x + w + padding),
\* bottom = min(image height, y + h + padding), hence never wider than
\* w + 2 * padding nor taller than h + 2 * padding.  Stated for the regions
\* whose padded top-left corner lies within the image; the others are C10's.
C15_CropBoxIsExpandedRegionClamped ==
    (pc = "save" /\ ~CropUnderflows(valid_faces[j], image)) =>
        LET face == valid_faces[j]
            p == padding(face)
        IN  /\ crop.x = Max(0, face.x - p)
            /\ crop.y = Max(0, face.y - p)
            /\ crop.x + crop.width = Min(image.w, face.x + face.w + p)
            /\ crop.y + crop.height = Min(image.h, face.y + face.h + p)
            /\ crop.width <= face.w + 2 * p
            /\ crop.height <= face.h + 2 * p

\* The files for which process_image was called: those that returned and, while
\* a file is being processed, the current one.
FilesStarted == Len(results) + (IF ProcessingFile THEN 1 ELSE 0)

\* C16 as stated: when the driver finishes, `processed` equals the number of
\* files for which processing was started.
C16_ProcessedCountsFilesAttempted ==
    reported = "summary" => processed = FilesStarted

\* C16, amended: `processed` counts the files whose processing returned Ok and
\* `errors` those whose processing returned Err; together they count the files
\* whose processing was started and has returned, which are the files before
\* position i; the files never reached are in neither.
C16_ProcessedCountsFilesReturnedOk ==
    /\ processed = Cardinality(FilesWith("Ok"))
    /\ errors = Cardinality(FilesWith("ErrOpen") \cup FilesWith("ErrSave"))
    /\ processed + errors = Len(results)
    /\ image_count > 0 => Len(results) = i - 1 /\ Len(results) <= image_count
    /\ image_count = 0 => results = <<>>

\* A finished run in which one file returned Ok and another returned Err.
C16_Witness ==
    /\ reported = "summary"
    /\ processed = 1
    /\ errors = 1
    /\ Len(results) = 2

\* The program is one thread that runs until it returns or panics: a step that
\* can be taken is taken.
SpecFair == Init /\ [][Next]_vars /\ WF_vars(Next)

\* The driver has left the loop over the files: the terminal state done.
Done == pc = "summary" \/ reported = "summary"

\* C17: whatever the files and the decode, detect, filter and save outcomes,
\* a driver that has entered the loop eventually reaches done, and it is at
\* done only when the files are exhausted or the counter has reached the
\* target.
C17_DriverReachesDone ==
    /\ [](pc = "loop" => <>Done)
    /\ [](Done => i > image_count \/ face_counter >= target_faces)

-----------------------------------------------------------------------------
(* The area ratio of the filter, checked under SpecFilter: C18.            *)

\* C18: for every image and every region with 32-bit sides, those with
\* image width * image height >= 2^32 or w * h >= 2^32 included, the filter
\* returns, and it keeps a region exactly when the region meets the acceptance
\* conditions with 0.02 < (w*h)/(W*H) < 0.4 taken over the exact products.
C18_AreaRatioIsExact ==
    /\ exit_status # "panic"
    /\ FilterReturned =>
          \A k \in 1..Len(faces) :
              (faces[k] \in Range(valid_faces)) <=> Accepts(faces[k], image)

====
